---- MODULE Spec2Model ----
(***************************************************************************)
(* A model of wasm-snip's pass, src/src/lib.rs: snip() and its helpers,    *)
(* over a walrus module (functions, exports, imports, function tables,     *)
(* start designation, producers record).                                   *)
(*                                                                         *)
(* Strings that are matched (function names, export names, regex           *)
(* patterns) are sequences of one-character strings, so that the regex     *)
(* matching is computed and not assumed.                                   *)
(***************************************************************************)
EXTENDS Integers, Sequences, FiniteSets, TLC

VARIABLES
  funcs,        \* module.funcs: live FunctionId -> [name, ty, kind, entry, seqs]
  nextFunc,     \* the next FunctionId the function arena hands out
  exports,      \* module.exports: live ExportId -> [name, item]
  imports,      \* module.imports: live ImportId -> [name, kind, ref]
  tables,       \* module.tables: live TableId -> [kind, elements, relative_elements]
  start,        \* module.start: Option<FunctionId>
  producers,    \* module.producers: the tools of the "processed-by" field
  options,      \* the Options passed to snip
  pc,           \* the position inside snip()
  result,       \* what the call of snip() did: "none", "ok", "regex_error", "panic"
  re_kept_set,  \* local re_kept_set of snip
  exports_to_delete, \* local exports_to_delete of snip
  re_set,       \* local re_set of snip
  to_snip,      \* local to_snip of snip
  stubs,        \* local unreachable_funcs of snip_table_elements, as it ended
  run,          \* how many times snip() has been called
  before,       \* the module as it was when the current call of snip() began
  pending       \* par_iter_local_mut: the functions no worker has processed yet

vars == <<funcs, nextFunc, exports, imports, tables, start, producers, options,
          pc, result, re_kept_set, exports_to_delete, re_set, to_snip, stubs,
          run, before, pending>>

\* How many times the host calls snip() with the same options on one module.
MaxRuns == 2

\* Option<T>: None is the empty sequence, Some(x) the sequence <<x>>.
None == <<>>
Some(x) == <<x>>
Range(s) == {s[i] : i \in DOMAIN s}
Restrict(f, S) == [x \in S |-> f[x]]

(***************************************************************************)
(* The regular expressions (the regex crate, used through RegexSet with    *)
(* its default flags).  A string is a tuple of one-character strings.      *)
(* The syntax modelled: literal characters, `.` (any character but a line  *)
(* feed), the anchors `^` `$` `\A` `\z`, capturing groups, alternation     *)
(* with `|`, the repetitions `*` `+` `?` (greedy or lazy: is_match cannot  *)
(* tell them apart), the escape of a meta character or of another ASCII    *)
(* punctuation character (regex_syntax::is_escapeable_character) and the   *)
(* escapes `\a` `\f` `\t` `\n` `\r` `\v`; the escape of a digit or of a      *)
(* letter that has no meaning is an error.  For a pattern that uses        *)
(* anything else (a bracketed class, a counted repetition, `(?...)`, a     *)
(* class or word-boundary escape, a hexadecimal escape, the escape of `<`  *)
(* `>` or of a character that is not written here) RegexNew has no value:  *)
(* no such pattern is drawn.                                               *)
(***************************************************************************)
Node(kind, c, sub) == [kind |-> kind, ch |-> c, sub |-> sub]
Lit(c) == Node("lit", c, <<>>)
AnyChar == Node("any", ".", <<>>)
StartText == Node("start", "", <<>>)
EndText == Node("end", "", <<>>)
Concat(items) == Node("cat", "", items)
Alternation(items) == Node("alt", "", items)
Group(a) == Node("group", "", <<a>>)
Repetition(op, a) == Node("rep", op, <<a>>)
RegexError == [ok |-> FALSE, ast |-> Concat(<<>>)]

\* regex_syntax::is_meta_character
MetaCharacters ==
  {"\\", ".", "+", "*", "?", "(", ")", "|", "[", "]", "{", "}", "^", "$",
   "#", "&", "-", "~"}

\* U+0007 and U+000B, which no string of the model can hold: each stands for
\* its character.
Bel == "BEL"
VTab == "VT"

\* The escapes that denote one control character.
EscapeLiteral ==
  [a |-> Bel, f |-> "\f", t |-> "\t", n |-> "\n", r |-> "\r", v |-> VTab]

\* regex_syntax::is_escapeable_character, beyond the meta characters: the
\* ASCII characters that are no letter, no digit and neither `<` nor `>`.
EscapeablePunctuation ==
  {" ", "!", "\"", "%", "'", ",", "/", ":", ";", "=", "@", "_",
   "\t", "\n", "\r", "\f"}

\* The escapes the parser rejects: a digit (no backreferences, no octal
\* notation) and the letters that have no meaning after a backslash.
UnrecognizedEscapes ==
  {"0", "1", "2", "3", "4", "5", "6", "7", "8", "9",
   "c", "e", "g", "h", "i", "j", "k", "l", "m", "o", "q", "y",
   "C", "E", "F", "G", "H", "I", "J", "K", "L", "M", "N", "O", "Q", "R",
   "T", "V", "X", "Y", "Z"}

\* RegexNew has no value on a pattern outside the modelled syntax.
Unmodelled(p) == CHOOSE r \in {} : r.pattern = p

\* The expression of the alternatives read so far and the concatenation
\* being read.
FinishAlternation(alts, concat) ==
  IF alts = <<>> THEN Concat(concat)
  ELSE Alternation(Append(alts, Concat(concat)))

\* The parser, one character at a time: stack holds, for each open group,
\* the alternatives and the concatenation that were being read outside it.
RECURSIVE ParseFrom(_, _, _, _, _)
ParseFrom(p, i, stack, alts, concat) ==
  IF i > Len(p)
    THEN IF stack = <<>>
           THEN [ok |-> TRUE, ast |-> FinishAlternation(alts, concat)]
           ELSE RegexError
  ELSE IF p[i] = "\\"
    THEN IF i = Len(p) THEN RegexError
         ELSE IF p[i + 1] \in MetaCharacters \cup EscapeablePunctuation
           THEN ParseFrom(p, i + 2, stack, alts, Append(concat, Lit(p[i + 1])))
         ELSE IF p[i + 1] \in DOMAIN EscapeLiteral
           THEN ParseFrom(p, i + 2, stack, alts,
                          Append(concat, Lit(EscapeLiteral[p[i + 1]])))
         ELSE IF p[i + 1] = "A"
           THEN ParseFrom(p, i + 2, stack, alts, Append(concat, StartText))
         ELSE IF p[i + 1] = "z"
           THEN ParseFrom(p, i + 2, stack, alts, Append(concat, EndText))
         ELSE IF p[i + 1] \in UnrecognizedEscapes THEN RegexError
         ELSE Unmodelled(p)
  ELSE IF p[i] = "."
    THEN ParseFrom(p, i + 1, stack, alts, Append(concat, AnyChar))
  ELSE IF p[i] = "^"
    THEN ParseFrom(p, i + 1, stack, alts, Append(concat, StartText))
  ELSE IF p[i] = "$"
    THEN ParseFrom(p, i + 1, stack, alts, Append(concat, EndText))
  ELSE IF p[i] \in {"*", "+", "?"}
    THEN IF concat = <<>> THEN RegexError
         ELSE ParseFrom(p, IF i < Len(p) /\ p[i + 1] = "?" THEN i + 2 ELSE i + 1,
                        stack, alts,
                        [concat EXCEPT ![Len(concat)] = Repetition(p[i], @)])
  ELSE IF p[i] = "|"
    THEN ParseFrom(p, i + 1, stack, Append(alts, Concat(concat)), <<>>)
  ELSE IF p[i] = "("
    THEN IF i < Len(p) /\ p[i + 1] = "?" THEN Unmodelled(p)
         ELSE ParseFrom(p, i + 1,
                        Append(stack, [alts |-> alts, concat |-> concat]),
                        <<>>, <<>>)
  ELSE IF p[i] = ")"
    THEN IF stack = <<>> THEN RegexError
         ELSE ParseFrom(p, i + 1, SubSeq(stack, 1, Len(stack) - 1),
                        stack[Len(stack)].alts,
                        Append(stack[Len(stack)].concat,
                               Group(FinishAlternation(alts, concat))))
  ELSE IF p[i] = "{"
    THEN IF concat = <<>> THEN RegexError ELSE Unmodelled(p)
  ELSE IF p[i] = "["
    THEN Unmodelled(p)
  ELSE ParseFrom(p, i + 1, stack, alts, Append(concat, Lit(p[i])))

\* regex::Regex::new
RegexNew(p) == ParseFrom(p, 1, <<>>, <<>>, <<>>)

\* Whether a literal or `.` matches the character c.
AtomMatches(a, c) == IF a.kind = "any" THEN c # "\n" ELSE a.ch = c

\* The positions of s where a match of the expression a can end, when it
\* starts at one of the positions from.
RECURSIVE MatchEnds(_, _, _)
RECURSIVE ConcatEnds(_, _, _, _)
RECURSIVE RepeatEnds(_, _, _)
MatchEnds(a, s, from) ==
  IF from = {} THEN {}
  ELSE IF a.kind \in {"lit", "any"}
    THEN {i + 1 : i \in {j \in from : j <= Len(s) /\ AtomMatches(a, s[j])}}
  ELSE IF a.kind = "start" THEN from \cap {1}
  ELSE IF a.kind = "end" THEN from \cap {Len(s) + 1}
  ELSE IF a.kind = "cat" THEN ConcatEnds(a.sub, 1, s, from)
  ELSE IF a.kind = "alt" THEN UNION {MatchEnds(a.sub[k], s, from) : k \in DOMAIN a.sub}
  ELSE IF a.kind = "group" THEN MatchEnds(a.sub[1], s, from)
  ELSE IF a.ch = "*" THEN RepeatEnds(a.sub[1], s, from)
  ELSE IF a.ch = "+" THEN RepeatEnds(a.sub[1], s, MatchEnds(a.sub[1], s, from))
  ELSE from \cup MatchEnds(a.sub[1], s, from)

ConcatEnds(items, k, s, from) ==
  IF k > Len(items) THEN from
  ELSE ConcatEnds(items, k + 1, s, MatchEnds(items[k], s, from))

RepeatEnds(a, s, from) ==
  LET more == from \cup MatchEnds(a, s, from)
  IN IF more = from THEN from ELSE RepeatEnds(a, s, more)

\* regex::Regex::is_match: an unanchored search.
RegexIsMatch(ast, s) == MatchEnds(ast, s, 1..(Len(s) + 1)) # {}

\* regex::RegexSet::new: fails when any pattern fails to compile.
RegexSetNew(patterns) ==
  IF \E k \in 1..Len(patterns) : ~RegexNew(patterns[k]).ok
    THEN [ok |-> FALSE, set |-> <<>>]
    ELSE [ok |-> TRUE, set |-> [k \in 1..Len(patterns) |-> RegexNew(patterns[k]).ast]]

\* regex::RegexSet::is_match: whether any pattern of the set matches.
RegexSetIsMatch(set, s) == \E k \in 1..Len(set) : RegexIsMatch(set[k], s)

(***************************************************************************)
(* The walrus IR the pass works on.  A local function owns an arena of     *)
(* instruction sequences (seqs, indexed by InstrSeqId) and an entry block; *)
(* the instructions are a stack machine's: the arguments of a call are the *)
(* instructions before it in its sequence.                                 *)
(***************************************************************************)
Call(f) == [op |-> "call", func |-> f]
CallIndirect(t) == [op |-> "call_indirect", table |-> t]
Const == [op |-> "const"]
Unreachable == [op |-> "unreachable"]
Block(s) == [op |-> "block", seq |-> s]
Loop(s) == [op |-> "loop", seq |-> s]
IfElse(c, a) == [op |-> "if", consequent |-> c, alternative |-> a]

\* The sequences an instruction nests, which a traversal descends into.
ChildSeqs(instr) ==
  IF instr.op \in {"block", "loop"} THEN {instr.seq}
  ELSE IF instr.op = "if" THEN {instr.consequent, instr.alternative}
  ELSE {}

\* walrus::ir::dfs_pre_order_mut / dfs_in_order: the sequences reached from
\* the entry block.
RECURSIVE ReachedSeqs(_, _, _)
ReachedSeqs(seqs, frontier, seen) ==
  IF frontier = {} THEN seen
  ELSE LET now == seen \cup frontier
           next == UNION {UNION {ChildSeqs(seqs[s][i]) : i \in 1..Len(seqs[s])} :
                            s \in frontier}
       IN ReachedSeqs(seqs, next \ now, now)

VisitedSeqs(func) == ReachedSeqs(func.seqs, {func.entry}, {})

\* The instructions of a local function's body that a traversal visits.
BodyInstrs(func) ==
  UNION {Range(func.seqs[s]) : s \in VisitedSeqs(func)}

\* The signatures of the module's types; ModuleTypes interns them.
TypeSig ==
  << [params |-> <<>>, results |-> <<>>],
     [params |-> <<"i32">>, results |-> <<"i32">>] >>

\* walrus::ModuleTypes::add: the id of the type with this signature.
TypesAdd(params, results) ==
  CHOOSE t \in 1..Len(TypeSig) : TypeSig[t] = [params |-> params, results |-> results]

(***************************************************************************)
(* Selection.                                                              *)
(***************************************************************************)
RustFmtPatterns ==
  << <<".", "*", "4", "c", "o", "r", "e", "3", "f", "m", "t", ".", "*">>,
     <<".", "*", "3", "s", "t", "d", "3", "f", "m", "t", ".", "*">>,
     <<".", "*", "c", "o", "r", "e", "\\", ".", "\\", ".", "f", "m", "t", "\\", ".", "\\", ".", ".", "*">>,
     <<".", "*", "s", "t", "d", "\\", ".", "\\", ".", "f", "m", "t", "\\", ".", "\\", ".", ".", "*">>,
     <<".", "*", "c", "o", "r", "e", ":", ":", "f", "m", "t", ":", ":", ".", "*">>,
     <<".", "*", "s", "t", "d", ":", ":", "f", "m", "t", ":", ":", ".", "*">> >>

RustPanickingPatterns ==
  << <<".", "*", "4", "c", "o", "r", "e", "9", "p", "a", "n", "i", "c", "k", "i", "n", "g", ".", "*">>,
     <<".", "*", "3", "s", "t", "d", "9", "p", "a", "n", "i", "c", "k", "i", "n", "g", ".", "*">>,
     <<".", "*", "c", "o", "r", "e", "\\", ".", "\\", ".", "p", "a", "n", "i", "c", "k", "i", "n", "g", "\\", ".", "\\", ".", ".", "*">>,
     <<".", "*", "s", "t", "d", "\\", ".", "\\", ".", "p", "a", "n", "i", "c", "k", "i", "n", "g", "\\", ".", "\\", ".", ".", "*">>,
     <<".", "*", "c", "o", "r", "e", ":", ":", "p", "a", "n", "i", "c", "k", "i", "n", "g", ":", ":", ".", "*">>,
     <<".", "*", "s", "t", "d", ":", ":", "p", "a", "n", "i", "c", "k", "i", "n", "g", ":", ":", ".", "*">> >>

\* build_regex_set: the user's patterns, then those of each enabled profile.
build_regex_set(opts) ==
  RegexSetNew(opts.patterns
              \o (IF opts.snip_rust_fmt_code THEN RustFmtPatterns ELSE <<>>)
              \o (IF opts.snip_rust_panicking_code THEN RustPanickingPatterns ELSE <<>>))

\* A selection that passes over the imported functions.
find_local_functions_to_snip(fs, names, set) ==
  {f \in DOMAIN fs :
     /\ fs[f].kind = "local"
     /\ fs[f].name # None
     /\ \/ fs[f].name[1] \in names
        \/ RegexSetIsMatch(set, fs[f].name[1])}

find_functions_to_snip(fs, names, set) ==
  {f \in DOMAIN fs :
     /\ fs[f].name # None
     /\ \/ fs[f].name[1] \in names
        \/ RegexSetIsMatch(set, fs[f].name[1])}

is_function(export) == export.item.kind = "func"

find_exports_to_delete(exps, names, set) ==
  {e \in DOMAIN exps :
     /\ is_function(exps[e])
     /\ ~(exps[e].name \in names \/ RegexSetIsMatch(set, exps[e].name))}

(***************************************************************************)
(* The mutating phases, as functions of the parts of the module they       *)
(* touch.                                                                  *)
(***************************************************************************)
delete_exports(exps, ids) == Restrict(exps, DOMAIN exps \ ids)

\* A deletion that deletes nothing (the targets are left to the collector).
delete_no_functions(fs, snip) == fs

delete_functions_to_snip(fs, snip) == Restrict(fs, DOMAIN fs \ snip)

should_snip_call(instr, snip) == instr.op = "call" /\ instr.func \in snip

visit_instr_mut(instr, snip) ==
  IF should_snip_call(instr, snip) THEN Unreachable ELSE instr

\* A Replacer that rewrites the entry block only and does not descend into
\* nested blocks.
ReplacedSeqsEntryOnly(func, snip) ==
  [s \in DOMAIN func.seqs |->
     IF s = func.entry
       THEN [i \in DOMAIN func.seqs[s] |-> visit_instr_mut(func.seqs[s][i], snip)]
       ELSE func.seqs[s]]

\* The body of one function after the Replacer's traversal from its entry.
ReplacedSeqs(func, snip) ==
  LET visited == VisitedSeqs(func)
  IN [s \in DOMAIN func.seqs |->
        IF s \in visited
          THEN [i \in DOMAIN func.seqs[s] |-> visit_instr_mut(func.seqs[s][i], snip)]
          ELSE func.seqs[s]]

replace_calls_with_unreachable(fs, snip) ==
  [f \in DOMAIN fs |->
     IF fs[f].kind = "local" /\ f \notin snip
       THEN [fs[f] EXCEPT !.seqs = ReplacedSeqs(fs[f], snip)]
       ELSE fs[f]]

\* An unexport that removes nothing.
unexport_nothing(exps, snip) == exps

unexport_snipped_functions(exps, snip) ==
  LET exports_to_snip ==
        {e \in DOMAIN exps : exps[e].item.kind = "func" /\ exps[e].item.ref \in snip}
  IN Restrict(exps, DOMAIN exps \ exports_to_snip)

unimport_snipped_functions(imps, snip) ==
  LET imports_to_snip ==
        {i \in DOMAIN imps : imps[i].kind = "func" /\ imps[i].ref \in snip}
  IN Restrict(imps, DOMAIN imps \ imports_to_snip)

\* A stub built with the empty signature instead of the slot's.
make_unreachable_func_untyped(ty) ==
  [name |-> None,
   ty |-> TypesAdd(<<>>, <<>>),
   kind |-> "local",
   entry |-> 1,
   seqs |-> << <<Unreachable>> >>]

\* make_unreachable_func: a function of the type's signature whose body is a
\* single unreachable; FunctionBuilder interns the signature.
make_unreachable_func(ty) ==
  [name |-> None,
   ty |-> TypesAdd(TypeSig[ty].params, TypeSig[ty].results),
   kind |-> "local",
   entry |-> 1,
   seqs |-> << <<Unreachable>> >>]

\* A cache that never hits: a stub per patched slot.
CacheNeverHas(cache, ty) == FALSE

\* unreachable_funcs.entry(ty): whether the cache already holds a stub.
CacheHas(cache, ty) == ty \in DOMAIN cache

\* One slot that references a snipped function: `*el = *unreachable_funcs
\* .entry(ty).or_insert_with(..)`.  st is [funcs, next, cache, out].
PatchSlot(st, f) ==
  LET ty == st.funcs[f].ty
  IN IF CacheHas(st.cache, ty)
       THEN [st EXCEPT !.out = Append(@, Some(st.cache[ty]))]
       ELSE [funcs |-> st.funcs @@ (st.next :> make_unreachable_func(ty)),
             next |-> st.next + 1,
             cache |-> st.cache @@ (ty :> st.next),
             out |-> Append(st.out, Some(st.next))]

\* The slots of one element list, in order; a slot is an Option<FunctionId>.
RECURSIVE PatchElems(_, _, _, _)
PatchElems(elems, k, st, snip) ==
  IF k > Len(elems) THEN st
  ELSE IF elems[k] # None /\ elems[k][1] \in snip
    THEN PatchElems(elems, k + 1, PatchSlot(st, elems[k][1]), snip)
    ELSE PatchElems(elems, k + 1, [st EXCEPT !.out = Append(@, elems[k])], snip)

\* The relative segments of one table, in order.  st is [funcs, next, cache,
\* segs].
RECURSIVE PatchSegments(_, _, _, _)
PatchSegments(segs, j, st, snip) ==
  IF j > Len(segs) THEN st
  ELSE LET r == PatchElems([k \in 1..Len(segs[j].elems) |-> Some(segs[j].elems[k])], 1,
                           [funcs |-> st.funcs, next |-> st.next,
                            cache |-> st.cache, out |-> <<>>], snip)
       IN PatchSegments(segs, j + 1,
            [funcs |-> r.funcs, next |-> r.next, cache |-> r.cache,
             segs |-> Append(st.segs,
                        [segs[j] EXCEPT !.elems = [k \in 1..Len(r.out) |-> r.out[k][1]]])],
            snip)

\* One table: its dense elements, then its relative segments.  st is
\* [funcs, next, cache, tables].
PatchTable(st, t, snip) ==
  IF st.tables[t].kind # "function" THEN st
  ELSE LET d == PatchElems(st.tables[t].elements, 1,
                           [funcs |-> st.funcs, next |-> st.next,
                            cache |-> st.cache, out |-> <<>>], snip)
           r == PatchSegments(st.tables[t].relative_elements, 1,
                              [funcs |-> d.funcs, next |-> d.next,
                               cache |-> d.cache, segs |-> <<>>], snip)
       IN [funcs |-> r.funcs, next |-> r.next, cache |-> r.cache,
           tables |-> [st.tables EXCEPT ![t] =
                         [@ EXCEPT !.elements = d.out, !.relative_elements = r.segs]]]

\* module.tables.iter_mut(): the live tables in arena order.
RECURSIVE PatchTables(_, _, _, _)
PatchTables(st, t, last, snip) ==
  IF t > last THEN st
  ELSE PatchTables(IF t \in DOMAIN st.tables THEN PatchTable(st, t, snip) ELSE st,
                   t + 1, last, snip)

MaxId(S) == IF S = {} THEN 0 ELSE CHOOSE m \in S : \A x \in S : x <= m

\* snip_table_elements: [funcs, next, cache, tables] as it leaves them.
snip_table_elements(fs, next, tbs, snip) ==
  PatchTables([funcs |-> fs, next |-> next, cache |-> <<>>, tables |-> tbs],
              1, MaxId(DOMAIN tbs), snip)

(***************************************************************************)
(* walrus::passes::gc::run.  Roots: every export's item and the start      *)
(* function.  A used local function uses what its body references (callees *)
(* and the tables of its indirect calls); a used table uses the functions  *)
(* in its slots.  Looking up a deleted function panics.                    *)
(***************************************************************************)
FuncRefs(fs, f) ==
  IF f \in DOMAIN fs /\ fs[f].kind = "local"
    THEN {i.func : i \in {x \in BodyInstrs(fs[f]) : x.op = "call"}}
    ELSE {}

TableRefs(fs, f) ==
  IF f \in DOMAIN fs /\ fs[f].kind = "local"
    THEN {i.table : i \in {x \in BodyInstrs(fs[f]) : x.op = "call_indirect"}}
    ELSE {}

TableSlots(table) ==
  IF table.kind = "function"
    THEN UNION {Range(table.elements[k]) : k \in 1..Len(table.elements)}
         \cup UNION {Range(table.relative_elements[j].elems) :
                       j \in 1..Len(table.relative_elements)}
    ELSE {}

RECURSIVE UsedFrom(_, _, _)
UsedFrom(fs, tbs, used) ==
  LET f2 == used.funcs
              \cup UNION {FuncRefs(fs, f) : f \in used.funcs}
              \cup UNION {TableSlots(tbs[t]) : t \in used.tables}
      t2 == used.tables \cup UNION {TableRefs(fs, f) : f \in used.funcs}
  IN IF f2 = used.funcs /\ t2 = used.tables THEN used
     ELSE UsedFrom(fs, tbs, [funcs |-> f2, tables |-> t2])

\* A collector that marks everything used.
UsedEverything(fs, exps, tbs, st) == [funcs |-> DOMAIN fs, tables |-> DOMAIN tbs]

\* Used::new
Used(fs, exps, tbs, st) ==
  UsedFrom(fs, tbs,
    [funcs |-> {exps[e].item.ref : e \in {x \in DOMAIN exps : exps[x].item.kind = "func"}}
                 \cup Range(st),
     tables |-> {exps[e].item.ref : e \in {x \in DOMAIN exps : exps[x].item.kind = "table"}}])

\* Used::new looks up every function it visits: `module.funcs.get(f)` of a
\* deleted id panics.
gc_panics(fs, exps, tbs, st) == \E f \in Used(fs, exps, tbs, st).funcs : f \notin DOMAIN fs

ImportUsed(imp, used) ==
  IF imp.kind = "func" THEN imp.ref \in used.funcs ELSE imp.ref \in used.tables

(***************************************************************************)
(* The inputs: the modules and the options snip is called with.            *)
(***************************************************************************)
NameMain == <<"m", "a", "i", "n">>
NameHelper == <<"h", "e", "l", "p", "e", "r">>
NameDoomed == <<"d", "o", "o", "m", "e", "d">>
NameTypo == <<"t", "y", "p", "o">>
NameTab == <<"t", "a", "b">>
NameEnv == <<"e", "n", "v">>
NameMangledFmt == <<"_", "Z", "N", "4", "c", "o", "r", "e", "3", "f", "m", "t", "5", "w", "r", "i", "t", "e">>
NameImplFmt == <<"c", "o", "r", "e", ".", ".", "f", "m", "t", ".", ".", "D", "e", "b", "u", "g">>
NameNearFmt == <<"c", "o", "r", "e", "X", "X", "f", "m", "t", "X", "X", "D", "e", "b", "u", "g">>
NameStdPanicking == <<"s", "t", "d", ":", ":", "p", "a", "n", "i", "c", "k", "i", "n", "g", ":", ":", "b", "e", "g", "i", "n">>
PatOo == <<".", "*", "o", "o", ".", "*">>
PatHel == <<"h", "e", "l", ".", "*">>
PatBad == <<"(">>

\* The bodies of main (1), helper (2) and doomed (3); function 4 is a leaf.
BodyChoices ==
  { \* main calls helper, helper calls doomed
    << << <<Const, Call(2)>> >>, << <<Const, Call(3)>> >>, << <<Const>> >> >>,
    \* the same, and doomed calls function 4
    << << <<Const, Call(2)>> >>, << <<Const, Call(3)>> >>, << <<Const, Call(4)>> >> >>,
    \* main: doomed(helper()); helper calls 4, doomed and through table 2
    << << <<Call(2), Call(3), Const>> >>,
       << <<Call(4), Call(3), CallIndirect(2)>> >>,
       << <<Const>> >> >>,
    \* main: the calls nested in a block and a loop
    << << <<Const, Block(2)>>, <<Call(4), Loop(3), Const>>, <<Call(2), Call(3)>> >>,
       << <<Const, Call(3)>> >>,
       << <<Const, Call(4)>> >> >>,
    \* main: an indirect call through table 1 and a conditional
    << << <<CallIndirect(1), IfElse(2, 3)>>, <<Call(2), Call(3)>>, <<Const, Call(4)>> >>,
       << <<Call(4), Call(3), CallIndirect(2)>> >>,
       << <<Const, Call(4)>> >> >>,
    \* nothing calls doomed; main calls through table 1
    << << <<Call(2), CallIndirect(1)>> >>, << <<Const, Const>> >>, << <<Call(4)>> >> >> }

DefaultBodies ==
  << << <<Const, Call(2)>> >>, << <<Const, Call(3)>> >>, << <<Const, Call(4)>> >> >>

Local(name, ty, seqs) ==
  [name |-> name, ty |-> ty, kind |-> "local", entry |-> 1, seqs |-> seqs]
Imported(name, ty) ==
  [name |-> name, ty |-> ty, kind |-> "import", entry |-> 1, seqs |-> <<>>]

FuncExport(name, f) == [name |-> name, item |-> [kind |-> "func", ref |-> f]]
TableExport(name, t) == [name |-> name, item |-> [kind |-> "table", ref |-> t]]

DefaultExports ==
  (1 :> FuncExport(NameMain, 1)) @@ (2 :> FuncExport(NameHelper, 2))
     @@ (3 :> TableExport(NameTab, 1))

ExportChoices ==
  { (1 :> FuncExport(NameMain, 1)),
    DefaultExports,
    (1 :> FuncExport(NameMain, 1)) @@ (2 :> FuncExport(NameDoomed, 3))
       @@ (3 :> TableExport(NameTab, 2)) }

\* Function 4.
CoreOthers ==
  { Local(None, 2, << <<Const>> >>), Local(Some(NameMangledFmt), 2, << <<Const>> >>),
    Imported(None, 2), Imported(Some(NameMangledFmt), 2) }

OtherChoices ==
  CoreOthers \cup
  { Local(Some(NameImplFmt), 2, << <<Const>> >>),
    Local(Some(NameNearFmt), 2, << <<Const>> >>),
    Imported(Some(NameStdPanicking), 2) }

FunctionTable(elements, relative) ==
  [kind |-> "function", elements |-> elements, relative_elements |-> relative]
AnyrefTable == [kind |-> "anyref", elements |-> <<>>, relative_elements |-> <<>>]
Segment(elems) == [offset |-> "global", elems |-> elems]

DefaultTables ==
  (1 :> FunctionTable(<<None, Some(3), Some(2)>>, <<>>))
     @@ (2 :> FunctionTable(<<>>, <<>>)) @@ (3 :> AnyrefTable)

TableChoices ==
  { (1 :> FunctionTable(<<>>, <<>>)) @@ (2 :> FunctionTable(<<>>, <<>>)),
    DefaultTables,
    (1 :> FunctionTable(<<Some(3), Some(4)>>, <<Segment(<<4, 3>>)>>))
       @@ (2 :> FunctionTable(<<>>, <<>>)),
    (1 :> FunctionTable(<<Some(3)>>, <<>>))
       @@ (2 :> FunctionTable(<<None>>, <<Segment(<<3, 4>>), Segment(<<1, 3>>)>>)) }

StartChoices == {None, Some(3)}

OptionsSet ==
  [functions : {<<>>, <<NameDoomed>>, <<NameHelper>>, <<NameTypo>>, <<NameDoomed, NameTypo>>},
   patterns : {<<>>, <<PatOo>>, <<PatBad>>},
   kept_exports : {<<>>, <<NameMain>>},
   kept_export_patterns : {<<>>, <<PatHel>>, <<PatBad>>},
   snip_rust_fmt_code : BOOLEAN,
   snip_rust_panicking_code : BOOLEAN,
   skip_producers_section : BOOLEAN]

\* The options every module is run with; the other options are run on the
\* default module, with every choice of function 4.
CoreOptions ==
  {o \in OptionsSet :
     /\ o.functions \in {<<NameDoomed>>, <<NameHelper>>}
     /\ o.patterns = <<>>
     /\ o.kept_export_patterns = <<>>
     /\ ~o.snip_rust_panicking_code
     /\ ~o.skip_producers_section}

Snapshot ==
  [funcs |-> funcs, exports |-> exports, imports |-> imports, tables |-> tables,
   start |-> start, producers |-> producers]

\* The state before the host's first call of snip, on a given module.
InitWith(bodies, other, ty3, exps, tbs, st, opts) ==
  /\ funcs = (1 :> Local(Some(NameMain), 1, bodies[1]))
               @@ (2 :> Local(Some(NameHelper), 1, bodies[2]))
               @@ (3 :> Local(Some(NameDoomed), ty3, bodies[3]))
               @@ (4 :> other)
  /\ imports = IF other.kind = "import"
                 THEN (1 :> [name |-> NameEnv, kind |-> "func", ref |-> 4])
                        @@ (2 :> [name |-> NameTab, kind |-> "table", ref |-> 2])
                 ELSE (2 :> [name |-> NameTab, kind |-> "table", ref |-> 2])
  /\ nextFunc = 5
  /\ exports = exps
  /\ tables = tbs
  /\ start = st
  /\ producers = {"rustc"}
  /\ options = opts
  /\ pc = "idle"
  /\ result = "none"
  /\ re_kept_set = <<>>
  /\ exports_to_delete = {}
  /\ re_set = <<>>
  /\ to_snip = {}
  /\ stubs = <<>>
  /\ run = 0
  /\ before = [funcs |-> <<>>, exports |-> <<>>, imports |-> <<>>, tables |-> <<>>,
               start |-> None, producers |-> {}]
  /\ pending = {}

Init ==
  \/ \E bodies \in BodyChoices, other \in CoreOthers, ty3 \in 1..Len(TypeSig),
        exps \in ExportChoices, tbs \in TableChoices, st \in StartChoices,
        opts \in CoreOptions :
       InitWith(bodies, other, ty3, exps, tbs, st, opts)
  \/ \E other \in OtherChoices, opts \in OptionsSet :
       InitWith(DefaultBodies, other, 1, DefaultExports, DefaultTables, None, opts)

(***************************************************************************)
(* snip(), one action per statement.                                       *)
(***************************************************************************)
module_vars == <<funcs, nextFunc, exports, imports, tables, start, producers>>
local_vars == <<re_kept_set, exports_to_delete, re_set, to_snip, stubs>>

\* The host calls snip(&mut module, options).
Snip ==
  /\ pc = "idle"
  /\ result \in {"none", "ok"}
  /\ run < MaxRuns
  /\ pc' = "producers"
  /\ result' = "none"
  /\ run' = run + 1
  /\ before' = Snapshot
  /\ re_kept_set' = <<>>
  /\ exports_to_delete' = {}
  /\ re_set' = <<>>
  /\ to_snip' = {}
  /\ stubs' = <<>>
  /\ UNCHANGED <<module_vars, options, pending>>

AddProcessedBy ==
  /\ pc = "producers"
  /\ producers' = IF ~options.skip_producers_section
                    THEN producers \cup {"wasm-snip"}
                    ELSE producers
  /\ pc' = "kept_regex"
  /\ UNCHANGED <<funcs, nextFunc, exports, imports, tables, start, options, result,
                 local_vars, run, before, pending>>

CompileKeptExportPatterns ==
  /\ pc = "kept_regex"
  /\ LET r == RegexSetNew(options.kept_export_patterns)
     IN IF r.ok
          THEN /\ re_kept_set' = r.set
               /\ pc' = "find_exports"
               /\ result' = result
          ELSE /\ re_kept_set' = re_kept_set
               /\ pc' = "idle"
               /\ result' = "regex_error"
  /\ UNCHANGED <<module_vars, options, exports_to_delete, re_set, to_snip, stubs,
                 run, before, pending>>

FindExportsToDelete ==
  /\ pc = "find_exports"
  /\ exports_to_delete' =
       find_exports_to_delete(exports, Range(options.kept_exports), re_kept_set)
  /\ pc' = "build_regex"
  /\ UNCHANGED <<module_vars, options, result, re_kept_set, re_set, to_snip, stubs,
                 run, before, pending>>

BuildRegexSet ==
  /\ pc = "build_regex"
  /\ LET r == build_regex_set(options)
     IN IF r.ok
          THEN /\ re_set' = r.set
               /\ pc' = "find_functions"
               /\ result' = result
          ELSE /\ re_set' = re_set
               /\ pc' = "idle"
               /\ result' = "regex_error"
  /\ UNCHANGED <<module_vars, options, re_kept_set, exports_to_delete, to_snip, stubs,
                 run, before, pending>>

FindFunctionsToSnip ==
  /\ pc = "find_functions"
  /\ to_snip' = find_functions_to_snip(funcs, Range(options.functions), re_set)
  /\ pc' = "delete_exports"
  /\ UNCHANGED <<module_vars, options, result, re_kept_set, exports_to_delete, re_set,
                 stubs, run, before, pending>>

DeleteExports ==
  /\ pc = "delete_exports"
  /\ exports' = delete_exports(exports, exports_to_delete)
  /\ pc' = "replace_calls"
  /\ UNCHANGED <<funcs, nextFunc, imports, tables, start, producers, options, result,
                 local_vars, run, before, pending>>

ReplaceCallsWithUnreachable ==
  /\ pc = "replace_calls"
  /\ funcs' = replace_calls_with_unreachable(funcs, to_snip)
  /\ pc' = "unexport"
  /\ UNCHANGED <<nextFunc, exports, imports, tables, start, producers, options, result,
                 local_vars, run, before, pending>>

UnexportSnippedFunctions ==
  /\ pc = "unexport"
  /\ exports' = unexport_snipped_functions(exports, to_snip)
  /\ pc' = "unimport"
  /\ UNCHANGED <<funcs, nextFunc, imports, tables, start, producers, options, result,
                 local_vars, run, before, pending>>

UnimportSnippedFunctions ==
  /\ pc = "unimport"
  /\ imports' = unimport_snipped_functions(imports, to_snip)
  /\ pc' = "snip_table"
  /\ UNCHANGED <<funcs, nextFunc, exports, tables, start, producers, options, result,
                 local_vars, run, before, pending>>

SnipTableElements ==
  /\ pc = "snip_table"
  /\ LET r == snip_table_elements(funcs, nextFunc, tables, to_snip)
     IN /\ funcs' = r.funcs
        /\ nextFunc' = r.next
        /\ tables' = r.tables
        /\ stubs' = r.cache
  /\ pc' = "delete_functions"
  /\ UNCHANGED <<exports, imports, start, producers, options, result, re_kept_set,
                 exports_to_delete, re_set, to_snip, run, before, pending>>

DeleteFunctionsToSnip ==
  /\ pc = "delete_functions"
  /\ funcs' = delete_functions_to_snip(funcs, to_snip)
  /\ pc' = "gc"
  /\ UNCHANGED <<nextFunc, exports, imports, tables, start, producers, options, result,
                 local_vars, run, before, pending>>

\* walrus::passes::gc::run(module), then Ok(()).
GcRun ==
  /\ pc = "gc"
  /\ IF gc_panics(funcs, exports, tables, start)
       THEN /\ result' = "panic"
            /\ UNCHANGED <<funcs, imports, tables>>
       ELSE LET used == Used(funcs, exports, tables, start)
            IN /\ imports' = Restrict(imports,
                               {i \in DOMAIN imports : ImportUsed(imports[i], used)})
               /\ tables' = Restrict(tables, DOMAIN tables \cap used.tables)
               /\ funcs' = Restrict(funcs, DOMAIN funcs \cap used.funcs)
               /\ result' = "ok"
  /\ pc' = "idle"
  /\ UNCHANGED <<nextFunc, exports, start, producers, options, local_vars, run, before, pending>>

Next ==
  \/ Snip
  \/ AddProcessedBy
  \/ CompileKeptExportPatterns
  \/ FindExportsToDelete
  \/ BuildRegexSet
  \/ FindFunctionsToSnip
  \/ DeleteExports
  \/ ReplaceCallsWithUnreachable
  \/ UnexportSnippedFunctions
  \/ UnimportSnippedFunctions
  \/ SnipTableElements
  \/ DeleteFunctionsToSnip
  \/ GcRun

Spec == Init /\ [][Next]_vars

(***************************************************************************)
(* replace_calls_with_unreachable as rayon runs it: par_iter_local_mut     *)
(* hands each local function to a worker, in any order; for_each returns   *)
(* when every function has been processed.                                 *)
(***************************************************************************)
\* A worker that transforms the functions being snipped too.
rewrite_without_skip(id, func, snip) == [func EXCEPT !.seqs = ReplacedSeqs(func, snip)]

\* The closure given to for_each, on one (id, func).
rewrite_one(id, func, snip) ==
  IF id \in snip THEN func ELSE [func EXCEPT !.seqs = ReplacedSeqs(func, snip)]

\* module.funcs.par_iter_local_mut()
ForkRewrite ==
  /\ pc = "replace_calls"
  /\ pending' = {f \in DOMAIN funcs : funcs[f].kind = "local"}
  /\ pc' = "rewriting"
  /\ UNCHANGED <<module_vars, options, result, local_vars, run, before>>

\* One worker runs the closure on one function.
RewriteWorker ==
  /\ pc = "rewriting"
  /\ \E f \in pending :
       /\ funcs' = [funcs EXCEPT ![f] = rewrite_one(f, funcs[f], to_snip)]
       /\ pending' = pending \ {f}
  /\ UNCHANGED <<nextFunc, exports, imports, tables, start, producers, options, pc,
                 result, local_vars, run, before>>

\* for_each returns.
JoinRewrite ==
  /\ pc = "rewriting"
  /\ pending = {}
  /\ pc' = "unexport"
  /\ UNCHANGED <<module_vars, options, result, local_vars, run, before, pending>>

NextPar ==
  \/ Snip
  \/ AddProcessedBy
  \/ CompileKeptExportPatterns
  \/ FindExportsToDelete
  \/ BuildRegexSet
  \/ FindFunctionsToSnip
  \/ DeleteExports
  \/ ForkRewrite
  \/ RewriteWorker
  \/ JoinRewrite
  \/ UnexportSnippedFunctions
  \/ UnimportSnippedFunctions
  \/ SnipTableElements
  \/ DeleteFunctionsToSnip
  \/ GcRun

SpecPar == Init /\ [][NextPar]_vars

(***************************************************************************)
(* The properties.  `before` is the module as the current call of snip     *)
(* found it; a call has returned when pc = "idle" and run >= 1.            *)
(***************************************************************************)
Returned == pc = "idle" /\ run >= 1
ReturnedOk == Returned /\ result = "ok"

\* The positions of snip() after replace_calls_with_unreachable and before
\* any function is deleted.
AfterRewrite == pc \in {"unexport", "unimport", "snip_table", "delete_functions"}

\* The local functions of the module that are not snipped.
Retained == {f \in DOMAIN before.funcs : before.funcs[f].kind = "local" /\ f \notin to_snip}

\* C1: after replace_calls_with_unreachable, in every local function that is
\* not snipped, every instruction sequence (at any nesting depth) has the
\* length it had, a call of a snipped function has become the trap at its own
\* position, and every other instruction, so every instruction that computed
\* an argument of a removed call, is the one that was there, in its place.
SideEffectPreservation ==
  AfterRewrite =>
    \A f \in Retained :
      /\ DOMAIN funcs[f].seqs = DOMAIN before.funcs[f].seqs
      /\ \A s \in DOMAIN before.funcs[f].seqs :
           /\ Len(funcs[f].seqs[s]) = Len(before.funcs[f].seqs[s])
           /\ \A i \in 1..Len(before.funcs[f].seqs[s]) :
                LET old == before.funcs[f].seqs[s][i]
                    new == funcs[f].seqs[s][i]
                IN IF old.op = "call" /\ old.func \in to_snip
                     THEN new = Unreachable
                     ELSE new = old

\* C1's case: in a nested sequence of a retained function, a call of a retained
\* function (an argument with effects) directly before a call of a snipped
\* one, rewritten.
SideEffectPreservationWitness ==
  /\ AfterRewrite
  /\ \E f \in Retained : \E s \in DOMAIN before.funcs[f].seqs :
       /\ s # before.funcs[f].entry
       /\ \E i \in 1..(Len(before.funcs[f].seqs[s]) - 1) :
            LET arg == before.funcs[f].seqs[s][i]
                call == before.funcs[f].seqs[s][i + 1]
            IN /\ arg.op = "call" /\ arg.func \notin to_snip
               /\ call.op = "call" /\ call.func \in to_snip
               /\ funcs[f].seqs[s][i] = arg
               /\ funcs[f].seqs[s][i + 1] = Unreachable

NamesOf(fs) == {fs[f].name[1] : f \in {x \in DOMAIN fs : fs[x].name # None}}

AllPatternsCompile ==
  /\ RegexSetNew(options.kept_export_patterns).ok
  /\ build_regex_set(options).ok

\* C2: a call of snip with an exact name that names no function of the module
\* (and patterns that all compile) returns the UnknownFunction error and
\* leaves the module as it was.
ExactNameError ==
  (/\ Returned
   /\ AllPatternsCompile
   /\ \E n \in Range(options.functions) : n \notin NamesOf(before.funcs))
  => (result = "UnknownFunction" /\ Snapshot = before)

\* C3: with kept_exports and kept_export_patterns both empty the retention
\* filter selects no export, and every export of a function that is not
\* snipped is still exported when snip has returned.
ExportRetentionWithoutKeepList ==
  (options.kept_exports = <<>> /\ options.kept_export_patterns = <<>>)
  => /\ exports_to_delete = {}
     /\ ReturnedOk =>
          \A e \in DOMAIN before.exports :
            (before.exports[e].item.kind = "func" /\ before.exports[e].item.ref \notin to_snip)
            => (e \in DOMAIN exports /\ exports[e] = before.exports[e])

\* C5: when a pattern fails to compile, snip returns the error with no part
\* of the module changed, the producers record included.
AllOrNothingOnMalformedRegex ==
  (Returned /\ result = "regex_error") => Snapshot = before

\* The functions whose body, in the module fs, calls f.
Callers(fs, f) ==
  {g \in DOMAIN fs :
     fs[g].kind = "local"
     /\ \E s \in DOMAIN fs[g].seqs : \E i \in 1..Len(fs[g].seqs[s]) :
          fs[g].seqs[s][i] = Call(f)}

ExportedFuncs(exps) ==
  {exps[e].item.ref : e \in {x \in DOMAIN exps : exps[x].item.kind = "func"}}

\* The functions in the slots, dense and relative, of the live function tables.
SlotFuncs(tbs) == UNION {TableSlots(tbs[t]) : t \in DOMAIN tbs}

\* A, snipped, is the only caller of B, and nothing that survives refers to B.
OnlySupports(A, B) ==
  /\ A \in to_snip
  /\ B \in DOMAIN before.funcs \ to_snip
  /\ Callers(before.funcs, B) = {A}
  /\ B \notin ExportedFuncs(exports)
  /\ B \notin SlotFuncs(tables)
  /\ start # Some(B)

\* C4: when snip has returned, a function B that only a snipped function A
\* called, and that no surviving export, table slot or start designation
\* refers to, is gone; and what the survivors refer to is present: every
\* exported function, every function in a slot of a surviving table, the
\* start function, and every callee of a present function.
CascadingCollection ==
  ReturnedOk =>
    /\ \A A \in to_snip, B \in DOMAIN before.funcs : OnlySupports(A, B) => B \notin DOMAIN funcs
    /\ ExportedFuncs(exports) \subseteq DOMAIN funcs
    /\ SlotFuncs(tables) \subseteq DOMAIN funcs
    /\ Range(start) \subseteq DOMAIN funcs
    /\ \A f \in DOMAIN funcs : \A g \in DOMAIN before.funcs \cup DOMAIN funcs :
         f \in Callers(funcs, g) => g \in DOMAIN funcs

\* C4's case: a snipped A that was B's only caller, B collected, while an
\* exported function and a callee of it survive.
CascadingCollectionWitness ==
  /\ ReturnedOk
  /\ \E A \in to_snip, B \in DOMAIN before.funcs : OnlySupports(A, B) /\ B \notin DOMAIN funcs
  /\ \E f \in ExportedFuncs(exports), g \in DOMAIN funcs : f # g /\ f \in Callers(funcs, g)

\* The positions of snip() after snip_table_elements and before the collector.
AfterPatch == pc \in {"delete_functions", "gc"}

IsStub(f) ==
  /\ f \in DOMAIN funcs
  /\ f \notin DOMAIN before.funcs
  /\ f \notin to_snip
  /\ funcs[f].kind = "local"
  /\ funcs[f].seqs[funcs[f].entry] = <<Unreachable>>

\* What a slot that held old (an Option<FunctionId>) must hold after patching.
SlotPatched(old, new) ==
  IF old # None /\ old[1] \in to_snip
    THEN /\ new # None
         /\ IsStub(new[1])
         /\ funcs[new[1]].ty = before.funcs[old[1]].ty
    ELSE new = old

\* C6: after snip_table_elements, every slot of every function table, dense
\* or in a relative segment, that referenced a snipped function references a
\* stub (not snipped, body a single trap) of exactly that function's type,
\* and every other slot, table and segment offset is as it was.
TablePatching ==
  AfterPatch =>
    /\ DOMAIN tables = DOMAIN before.tables
    /\ \A t \in DOMAIN tables :
         LET old == before.tables[t]
             new == tables[t]
         IN /\ new.kind = old.kind
            /\ Len(new.elements) = Len(old.elements)
            /\ \A k \in 1..Len(old.elements) : SlotPatched(old.elements[k], new.elements[k])
            /\ Len(new.relative_elements) = Len(old.relative_elements)
            /\ \A j \in 1..Len(old.relative_elements) :
                 /\ new.relative_elements[j].offset = old.relative_elements[j].offset
                 /\ Len(new.relative_elements[j].elems) = Len(old.relative_elements[j].elems)
                 /\ \A k \in 1..Len(old.relative_elements[j].elems) :
                      SlotPatched(Some(old.relative_elements[j].elems[k]),
                                  Some(new.relative_elements[j].elems[k]))
    /\ SlotFuncs(tables) \cap to_snip = {}

\* C6's case: a dense slot and a relative slot that referenced snipped
\* functions of two different types, both patched, beside a slot left alone.
TablePatchingWitness ==
  /\ AfterPatch
  /\ \E t \in DOMAIN tables, u \in DOMAIN tables :
       /\ \E k \in 1..Len(before.tables[t].elements) :
            /\ before.tables[t].elements[k] # None
            /\ before.tables[t].elements[k][1] \in to_snip
            /\ \E j \in 1..Len(before.tables[u].relative_elements) :
                 \E i \in 1..Len(before.tables[u].relative_elements[j].elems) :
                   LET g == before.tables[u].relative_elements[j].elems[i]
                   IN /\ g \in to_snip
                      /\ before.funcs[g].ty # before.funcs[before.tables[t].elements[k][1]].ty
                      /\ tables[u].relative_elements[j].elems[i] # g
       /\ \E j \in 1..Len(before.tables[u].relative_elements) :
            \E i \in 1..Len(before.tables[u].relative_elements[j].elems) :
              /\ before.tables[u].relative_elements[j].elems[i] \notin to_snip
              /\ tables[u].relative_elements[j].elems[i] =
                   before.tables[u].relative_elements[j].elems[i]

FuncImports(imps) ==
  {imps[i].ref : i \in {x \in DOMAIN imps : imps[x].kind = "func"}}

\* C7: when snip has returned, every function export and every function
\* import that remains references a function that exists; and when
\* delete_functions_to_snip is about to run, no export and no import
\* references a function it deletes.
ExportImportConsistency ==
  /\ ReturnedOk =>
       /\ ExportedFuncs(exports) \subseteq DOMAIN funcs
       /\ FuncImports(imports) \subseteq DOMAIN funcs
  /\ pc \in {"delete_functions", "gc"} =>
       /\ ExportedFuncs(exports) \cap to_snip = {}
       /\ FuncImports(imports) \cap to_snip = {}

\* C7's case: the call removed an export and an import of snipped functions,
\* and a function export remains.
ExportImportConsistencyWitness ==
  /\ ReturnedOk
  /\ ExportedFuncs(before.exports) \cap to_snip # {}
  /\ FuncImports(before.imports) \cap to_snip # {}
  /\ ExportedFuncs(exports) # {}

\* C8: a call of snip on the module a successful call with the same options
\* left selects nothing, and leaves the functions (and their bodies), the
\* exports, the imports and the tables as it found them.
IdempotentReselection ==
  run >= 2 =>
    /\ to_snip = {}
    /\ ReturnedOk =>
         /\ funcs = before.funcs
         /\ exports = before.exports
         /\ imports = before.imports
         /\ tables = before.tables

\* C8's case: the second call has returned, on a module from which the first
\* call had removed the named target and in which a stub had been made.
IdempotentReselectionWitness ==
  /\ run >= 2
  /\ ReturnedOk
  /\ NameDoomed \in Range(options.functions)
  /\ NameDoomed \notin NamesOf(funcs)
  /\ NameMain \in NamesOf(funcs)
  /\ \E f \in DOMAIN funcs : funcs[f].name = None /\ f \in SlotFuncs(tables)

\* The patterns snip matches names against: the user's and those of the
\* enabled profiles.
SelectionPatterns ==
  Range(options.patterns)
    \cup (IF options.snip_rust_fmt_code THEN Range(RustFmtPatterns) ELSE {})
    \cup (IF options.snip_rust_panicking_code THEN Range(RustPanickingPatterns) ELSE {})

\* C9: find_functions_to_snip returns exactly the functions, imported or
\* local, called or not, that have a name which is one of the exact names or
\* is matched by a pattern of the user or of an enabled profile.
TargetSelectionExact ==
  pc = "delete_exports" =>
    \A f \in DOMAIN funcs :
      f \in to_snip <=>
        /\ funcs[f].name # None
        /\ \/ funcs[f].name[1] \in Range(options.functions)
           \/ \E p \in SelectionPatterns : RegexIsMatch(RegexNew(p).ast, funcs[f].name[1])

\* C9's case: an imported function selected by a profile's pattern only,
\* beside a local one selected by its exact name and one selected by nothing.
TargetSelectionExactWitness ==
  /\ pc = "delete_exports"
  /\ \E f \in to_snip, g \in to_snip, h \in DOMAIN funcs \ to_snip :
       /\ funcs[f].kind = "import"
       /\ funcs[f].name[1] \notin Range(options.functions)
       /\ options.patterns = <<>>
       /\ funcs[g].kind = "local"
       /\ funcs[g].name[1] \in Range(options.functions)
       /\ funcs[h].name # None

\* C10: snip_table_elements makes one stub for each type of a snipped
\* function found in a slot, and no other function: the new functions are
\* as many as those types, no two have the same type, and they are the
\* cache's entries.
StubMemoization ==
  AfterPatch =>
    LET made == DOMAIN funcs \ DOMAIN before.funcs
        needed == {before.funcs[f].ty : f \in SlotFuncs(before.tables) \cap to_snip}
    IN /\ Cardinality(made) = Cardinality(needed)
       /\ \A f \in made, g \in made : funcs[f].ty = funcs[g].ty => f = g
       /\ {funcs[f].ty : f \in made} = needed
       /\ DOMAIN stubs = needed
       /\ \A ty \in needed : stubs[ty] \in made

\* C10's case: one stub shared by a dense slot of one table and a relative
\* slot of another, and a second stub of another type.
StubMemoizationWitness ==
  /\ AfterPatch
  /\ Cardinality(DOMAIN funcs \ DOMAIN before.funcs) = 2
  /\ \E t \in DOMAIN tables, u \in DOMAIN tables :
       /\ t # u
       /\ \E k \in 1..Len(tables[t].elements) : \E j \in 1..Len(tables[u].relative_elements) :
            \E i \in 1..Len(tables[u].relative_elements[j].elems) :
              /\ tables[t].elements[k] # None
              /\ tables[t].elements[k][1] \notin DOMAIN before.funcs
              /\ tables[u].relative_elements[j].elems[i] = tables[t].elements[k][1]

\* What rewriting the functions one after another makes of the module's
\* functions.
SequentialRewrite == replace_calls_with_unreachable(before.funcs, to_snip)

\* Whether a sequence of the function's body holds a call of a snipped
\* function.
CallsSnipped(func) ==
  /\ func.kind = "local"
  /\ \E s \in DOMAIN func.seqs : \E i \in 1..Len(func.seqs[s]) :
       func.seqs[s][i].op = "call" /\ func.seqs[s][i].func \in to_snip

\* C11: while the workers of replace_calls_with_unreachable run, in whatever
\* order, a function no worker has processed is as it was and a processed
\* one is what the one-after-another rewrite makes of it (a worker writes its
\* own function only); when the phase has ended the functions are those of
\* the one-after-another rewrite, the bodies of the snipped functions are
\* untouched, and no retained local function calls a snipped function.
InterleavingIndependence ==
  /\ pc = "rewriting" =>
       /\ DOMAIN funcs = DOMAIN before.funcs
       /\ \A f \in DOMAIN funcs :
            funcs[f] = IF f \in pending THEN before.funcs[f] ELSE SequentialRewrite[f]
  /\ pc \in {"unexport", "unimport", "snip_table"} =>
       /\ funcs = SequentialRewrite
       /\ \A f \in to_snip : funcs[f] = before.funcs[f]
       /\ \A f \in Retained : ~CallsSnipped(funcs[f])

\* C11's case: the workers run out of the functions' order: helper has been
\* rewritten while main, which calls a snipped function too, has not, and a
\* snipped function that calls a snipped function has been passed over.
InterleavingIndependenceWitness ==
  /\ pc = "rewriting"
  /\ \E f \in Retained, g \in Retained, h \in to_snip :
       /\ g < f
       /\ f \notin pending
       /\ funcs[f] # before.funcs[f]
       /\ g \in pending
       /\ CallsSnipped(funcs[g])
       /\ h \notin pending
       /\ CallsSnipped(before.funcs[h])

\* The functions the bodies of the module's local functions call.
CallTargets(fs) ==
  UNION {UNION {{x.func : x \in {y \in Range(fs[f].seqs[s]) : y.op = "call"}} :
                  s \in DOMAIN fs[f].seqs} :
           f \in {g \in DOMAIN fs : fs[g].kind = "local"}}

\* From delete_functions_to_snip on, to the end of the call.
AfterDeletion == pc = "gc" \/ (Returned /\ result \in {"ok", "panic"})

\* C12: once delete_functions_to_snip has removed the targets, and until the
\* collector has ended, nothing that survives designates a function that is
\* gone: no call in a body, no table slot, no export, no import, and not the
\* start designation.
ReferentialIntegrityAtDeletion ==
  AfterDeletion =>
    /\ CallTargets(funcs) \subseteq DOMAIN funcs
    /\ SlotFuncs(tables) \subseteq DOMAIN funcs
    /\ ExportedFuncs(exports) \subseteq DOMAIN funcs
    /\ FuncImports(imports) \subseteq DOMAIN funcs
    /\ Range(start) \subseteq DOMAIN funcs
====
